---- MODULE Spec2Model ----
(***************************************************************************)
(* Model of cell_components.py: the material table, the component          *)
(* dataclasses (Electrode, Separator, Electrolyte, Pouch, Tab) and the     *)
(* Cell aggregate with its two derivation stages.                          *)
(*                                                                         *)
(* Numbers are exact rationals <<n, d>> with d > 0 in lowest terms; an     *)
(* attribute that a dataclass declares with field(init=False) and that has *)
(* not been assigned yet is Unset.  A Python exception is the err field of *)
(* the result of the operator that models the raising method.             *)
(***************************************************************************)
EXTENDS Integers, Sequences, FiniteSets, TLC

----------------------------------------------------------------------------
(* Exact arithmetic *)

Abs(n) == IF n < 0 THEN -n ELSE n

RECURSIVE GCD(_, _)
GCD(a, b) == IF b = 0 THEN a ELSE GCD(b, a % b)

Norm(n, d) ==
    LET g == GCD(Abs(n), Abs(d))
        s == IF d < 0 THEN -1 ELSE 1
    IN  <<s * (n \div g), s * (d \div g)>>

R(n, d) == Norm(n, d)
Zero == <<0, 1>>
One == <<1, 1>>
Unset == <<0, 0>>

IsSet(x) == x[2] # 0
IsZero(x) == x[1] = 0 /\ x[2] # 0

Mul(x, y) ==
    LET g1 == GCD(Abs(x[1]), y[2])
        g2 == GCD(Abs(y[1]), x[2])
    IN  <<(x[1] \div g1) * (y[1] \div g2), (x[2] \div g2) * (y[2] \div g1)>>

Add(x, y) ==
    LET g == GCD(x[2], y[2])
    IN  Norm(x[1] * (y[2] \div g) + y[1] * (x[2] \div g), (x[2] \div g) * y[2])

Neg(x) == <<-x[1], x[2]>>
Sub(x, y) == Add(x, Neg(y))
\* x / y for y # 0; the callers raise ZeroDivisionError before dividing by 0
Div(x, y) == Mul(x, IF y[1] < 0 THEN <<-y[2], -y[1]>> ELSE <<y[2], y[1]>>)
Whole(n) == <<n, 1>>

Leq(x, y) == Sub(x, y)[1] <= 0
Less(x, y) == Sub(x, y)[1] < 0
Min(x, y) == IF Leq(x, y) THEN x ELSE y
Max(x, y) == IF Leq(x, y) THEN y ELSE x

----------------------------------------------------------------------------
(* State: the module-level materials table and the objects the caller has  *)
(* constructed, by name.  Every object record carries err: "none" for an   *)
(* object whose constructor returned, else the exception its constructor   *)
(* raised (the fields then hold what had been assigned when it raised).    *)
(* atcall records, for each Cell(...) call, the objects it was given as    *)
(* they were when the call was made.                                       *)

VARIABLES materials, electrodes, electrolytes, separators, pouches, tabs, cells,
          atcall

vars == <<materials, electrodes, electrolytes, separators, pouches, tabs, cells,
          atcall>>

\* the table of lines 11-48
MaterialsTable ==
    [name \in {"Cu", "Al", "Prussian Blue", "Hard Carbon", "SuperP", "PVDF",
               "CMC+SBR", "Celgard 2325", "pouch", "tabs", "electrolytes"} |->
        CASE name = "Cu" -> [density |-> R(894, 100), thickness |-> Whole(6)]
          [] name = "Al" -> [density |-> R(27, 10), thickness |-> Whole(16)]
          [] name = "Prussian Blue" ->
                [density |-> R(18, 10), capacity |-> Whole(150), voltage |-> R(32, 10)]
          [] name = "Hard Carbon" ->
                [capacity |-> Whole(300), voltage |-> R(1, 10), density |-> R(16, 10)]
          [] name = "SuperP" -> [density |-> R(19, 10)]
          [] name = "PVDF" -> [density |-> R(178, 100)]
          [] name = "CMC+SBR" ->
                [density |-> Div(Add(R(16, 10), R(96, 100)), Whole(2))]
          [] name = "Celgard 2325" ->
                [thickness |-> Whole(25), porosity |-> R(41, 100),
                 density |-> R(74, 100)]
          [] name = "pouch" ->
                [thickness |-> Whole(113), density |-> R(162, 100),
                 extra_width |-> R(9, 10), extra_height |-> Whole(2)]
          [] name = "tabs" -> [Al |-> [density |-> R(27, 10)]]
          [] name = "electrolytes" ->
                ("NaPF6 in diglyme" :> [density |-> R(115, 100)])]

HasDensity(name) ==
    name \in DOMAIN materials /\ "density" \in DOMAIN materials[name]

materials_density(name) == materials[name].density

\* materials[name]['density']: KeyError for a missing name or a missing key
LookupErr(name) == IF HasDensity(name) THEN "none" ELSE "KeyError"

\* materials.get(name)['density']: None['density'] is a TypeError
GetErr(name) ==
    IF name \notin DOMAIN materials THEN "TypeError"
    ELSE IF ~HasDensity(name) THEN "KeyError" ELSE "none"

----------------------------------------------------------------------------
(* Electrode *)

\* the dataclass-generated __init__: the caller's fields, derived fields unset
Electrode_init(args) ==
    [active_material |-> args.active_material,
     mass_ratio |-> args.mass_ratio,
     binder |-> args.binder,
     porosity |-> args.porosity,
     voltage |-> args.voltage,
     capacity |-> args.capacity,
     density_am |-> args.density_am,
     width |-> args.width,
     height |-> args.height,
     cc_thickness |-> args.cc_thickness,
     current_collector |-> args.current_collector,
     thickness |-> args.thickness,
     tab_height |-> args.tab_height,
     tab_width |-> args.tab_width,
     density |-> Unset,
     areal_capacity |-> Unset,
     err |-> "none"]

Raise(self, kind) == [self EXCEPT !.err = kind]

\* the volumes used as they are, not as fractions of their total
volume_ratio_unnormalised(v, total) == v

\* line 79: a volume as a fraction of the total volume
volume_ratio(v, total) == Div(v, total)

calculate_composite_density(self) ==
    IF IsZero(self.density_am) THEN Raise(self, "ZeroDivisionError")
    ELSE IF LookupErr(self.binder) # "none" THEN Raise(self, LookupErr(self.binder))
    ELSE
      LET superp == materials_density("SuperP")
          binder == materials_density(self.binder)
          volumes == [am |-> Div(self.mass_ratio.am, self.density_am),
                      carbon |-> Div(self.mass_ratio.carbon, superp),
                      binder |-> Div(self.mass_ratio.binder, binder)]
          total == Add(Add(Add(Zero, volumes.am), volumes.carbon), volumes.binder)
      IN  IF IsZero(total) THEN Raise(self, "ZeroDivisionError")
          ELSE
            LET volume_ratios == [k \in {"am", "carbon", "binder"} |->
                                    volume_ratio(volumes[k], total)]
            IN  [self EXCEPT !.density =
                    Mul(Sub(One, self.porosity),
                        Add(Add(Mul(volume_ratios["am"], self.density_am),
                                Mul(volume_ratios["carbon"], superp)),
                            Mul(volume_ratios["binder"], binder)))]

calculate_areal_capacity(self) ==
    [self EXCEPT !.areal_capacity =
        Mul(Mul(Mul(self.density, self.thickness), self.capacity), self.mass_ratio.am)]

Electrode_post_init(self) ==
    LET d == calculate_composite_density(self)
    IN  IF d.err # "none" THEN d ELSE calculate_areal_capacity(d)

Electrode(args) == Electrode_post_init(Electrode_init(args))

----------------------------------------------------------------------------
(* Separator, Electrolyte, Pouch: dataclasses without __post_init__ *)

Separator(args) ==
    [material |-> args.material, width |-> args.width, height |-> args.height,
     thickness |-> args.thickness, porosity |-> args.porosity,
     density |-> args.density, err |-> "none"]

Electrolyte(args) ==
    [material |-> args.material, density |-> args.density,
     volume_excess |-> args.volume_excess,
     volume |-> Unset, volume_per_ah |-> Unset, err |-> "none"]

Pouch(args) ==
    [width |-> args.width, height |-> args.height, thickness |-> args.thickness,
     density |-> args.density, err |-> "none"]

----------------------------------------------------------------------------
(* Tab *)

Tab_init(args) ==
    [material_cathode |-> args.material_cathode,
     material_anode |-> args.material_anode,
     height |-> args.height, width |-> args.width, thickness |-> args.thickness,
     density_cathode |-> Unset, density_anode |-> Unset, err |-> "none"]

Tab_post_init(self) ==
    IF GetErr(self.material_cathode) # "none"
    THEN Raise(self, GetErr(self.material_cathode))
    ELSE
      LET s1 == [self EXCEPT !.density_cathode = materials_density(self.material_cathode)]
      IN  IF GetErr(self.material_anode) # "none"
          THEN Raise(s1, GetErr(self.material_anode))
          ELSE [s1 EXCEPT !.density_anode = materials_density(self.material_anode)]

Tab(args) == Tab_post_init(Tab_init(args))

----------------------------------------------------------------------------
(* Cell.  The component fields hold the names of the objects passed in:    *)
(* a Cell keeps references, it copies nothing.                             *)

Cell_init(args) ==
    [cathode |-> args.cathode, anode |-> args.anode,
     separator |-> args.separator, electrolyte |-> args.electrolyte,
     format |-> args.format, tabs |-> args.tabs,
     layers_number |-> args.layers_number,
     n_p_ratio |-> args.n_p_ratio, ice |-> args.ice,
     volumetric_energy_density |-> Unset,
     gravimetric_energy_density |-> Unset,
     energy |-> Unset, capacity |-> Unset,
     total_mass |-> Unset, total_volume |-> Unset,
     pc |-> "init", err |-> "none"]

\* the thickness solved with the cathode's density in place of the anode's
calculate_anode_properties_cathode_density(self, cathode, anode) ==
    LET required_anode_capacity == Mul(cathode.areal_capacity, self.n_p_ratio)
        denom == Mul(Mul(cathode.density, anode.capacity), anode.mass_ratio.am)
    IN  IF IsZero(denom)
        THEN [err |-> "ZeroDivisionError", anode |-> anode]
        ELSE [err |-> "none",
              anode |-> calculate_areal_capacity(
                  [anode EXCEPT !.thickness = Div(required_anode_capacity, denom)])]

\* the thickness overwritten without the call of line 160
calculate_anode_properties_no_recalculation(self, cathode, anode) ==
    LET required_anode_capacity == Mul(cathode.areal_capacity, self.n_p_ratio)
        denom == Mul(Mul(anode.density, anode.capacity), anode.mass_ratio.am)
    IN  IF IsZero(denom)
        THEN [err |-> "ZeroDivisionError", anode |-> anode]
        ELSE [err |-> "none",
              anode |-> [anode EXCEPT !.thickness = Div(required_anode_capacity, denom)]]

\* the solved thickness also stored as the current collector's thickness
calculate_anode_properties_sets_cc_thickness(self, cathode, anode) ==
    LET required_anode_capacity == Mul(cathode.areal_capacity, self.n_p_ratio)
        denom == Mul(Mul(anode.density, anode.capacity), anode.mass_ratio.am)
    IN  IF IsZero(denom)
        THEN [err |-> "ZeroDivisionError", anode |-> anode]
        ELSE [err |-> "none",
              anode |-> calculate_areal_capacity(
                  [anode EXCEPT !.thickness = Div(required_anode_capacity, denom),
                                !.cc_thickness = Div(required_anode_capacity, denom)])]

\* the anode as calculate_anode_properties leaves it; err is the exception
\* raised, with nothing assigned when the division raises
calculate_anode_properties(self, cathode, anode) ==
    LET required_anode_capacity == Mul(cathode.areal_capacity, self.n_p_ratio)
        denom == Mul(Mul(anode.density, anode.capacity), anode.mass_ratio.am)
    IN  IF IsZero(denom)
        THEN [err |-> "ZeroDivisionError", anode |-> anode]
        ELSE [err |-> "none",
              anode |-> calculate_areal_capacity(
                  [anode EXCEPT !.thickness = Div(required_anode_capacity, denom)])]

\* line 174
cathode_volume(self, cathode) ==
    Mul(Mul(Mul(Mul(cathode.width, cathode.height), cathode.thickness), Whole(2)),
        Whole(self.layers_number))

\* line 175
anode_volume(self, anode) ==
    Mul(Mul(Mul(anode.width, anode.height), anode.thickness),
        Whole(2 * self.layers_number + 2))

\* lines 209-210: mass * mass_ratio['am'] * capacity / 1000
electrode_capacity(mass, electrode) ==
    Div(Mul(Mul(mass, electrode.mass_ratio.am), electrode.capacity), Whole(1000))

\* the larger of the two capacities taken as the limit
limiting_capacity_max(cathode_capacity, anode_capacity, ice) ==
    Mul(Max(cathode_capacity, anode_capacity), ice)

\* line 211: the capacity of the limiting electrode, derated by ice
limiting_capacity(cathode_capacity, anode_capacity, ice) ==
    Mul(Min(cathode_capacity, anode_capacity), ice)

\* the Cell and the Electrolyte as calculate_energy_density leaves them: the
\* assignments made before the first exception, and that exception in err
calculate_energy_density(self, cathode, anode, separator, electrolyte, format, tab) ==
    LET layers == Whole(self.layers_number)
        cathode_volume_ == cathode_volume(self, cathode)
        anode_volume_ == anode_volume(self, anode)
        separator_volume ==
            Mul(Mul(Mul(Mul(separator.width, separator.height), separator.thickness),
                    Whole(2)), layers)
        pouch_volume ==
            Mul(Mul(Mul(format.width, format.height), format.thickness), Whole(2))
        anode_cc_volume ==
            Mul(Mul(Whole(self.layers_number + 1),
                    Add(Add(Mul(anode.width, anode.height), anode.tab_height),
                        anode.tab_width)),
                anode.cc_thickness)
        cathode_cc_volume ==
            Mul(Mul(layers,
                    Add(Mul(cathode.width, cathode.height),
                        Mul(cathode.tab_height, cathode.tab_width))),
                cathode.cc_thickness)
        cathode_mass == Mul(cathode_volume_, cathode.density)
        anode_mass == Mul(anode_volume_, anode.density)
        separator_mass == Mul(separator_volume, separator.density)
        pouch_mass == Mul(pouch_volume, format.density)
        cathode_cc_mass ==
            Mul(cathode_cc_volume, materials_density(cathode.current_collector))
        anode_cc_mass ==
            Mul(anode_cc_volume, materials_density(anode.current_collector))
        tabs_mass ==
            Mul(Mul(Mul(tab.height, tab.width), tab.thickness),
                Add(tab.density_cathode, tab.density_anode))
        cathode_void_volume == Mul(cathode_volume_, cathode.porosity)
        anode_void_volume == Mul(anode_volume_, anode.porosity)
        separator_void_volume == Mul(separator_volume, separator.porosity)
        total_void_volume ==
            Add(Add(cathode_void_volume, anode_void_volume), separator_void_volume)
        volume == Mul(total_void_volume, Add(One, electrolyte.volume_excess))
        electrolyte_mass == Mul(volume, electrolyte.density)
        total_mass ==
            Add(Add(Add(Add(Add(Add(Add(cathode_mass, cathode_cc_mass), anode_mass),
                                anode_cc_mass), separator_mass), pouch_mass),
                    tabs_mass), electrolyte_mass)
        total_volume ==
            Add(Add(Add(Add(Add(Add(cathode_volume_, anode_volume_), separator_volume),
                            pouch_volume), Sub(volume, total_void_volume)),
                    anode_cc_volume), cathode_cc_volume)
        cathode_capacity == electrode_capacity(cathode_mass, cathode)
        anode_capacity == electrode_capacity(anode_mass, anode)
        capacity == limiting_capacity(cathode_capacity, anode_capacity, self.ice)
        cell_voltage == Sub(cathode.voltage, anode.voltage)
        energy == Mul(capacity, cell_voltage)
        \* line 201
        e1 == [electrolyte EXCEPT !.volume = volume]
        \* lines 205-211
        s1 == [self EXCEPT !.total_mass = total_mass,
                           !.total_volume = total_volume,
                           !.capacity = capacity]
        \* line 214
        e2 == [e1 EXCEPT !.volume_per_ah = Div(volume, capacity)]
        \* line 218
        s2 == [s1 EXCEPT !.energy = energy]
        \* line 221
        s3 == [s2 EXCEPT !.volumetric_energy_density =
                    Mul(Div(energy, total_volume), Whole(1000))]
        \* line 222
        s4 == [s3 EXCEPT !.gravimetric_energy_density =
                    Mul(Div(energy, total_mass), Whole(1000))]
    IN  IF LookupErr(cathode.current_collector) # "none"
        THEN [err |-> LookupErr(cathode.current_collector),
              cell |-> self, electrolyte |-> electrolyte]
        ELSE IF LookupErr(anode.current_collector) # "none"
        THEN [err |-> LookupErr(anode.current_collector),
              cell |-> self, electrolyte |-> electrolyte]
        ELSE IF IsZero(capacity)
        THEN [err |-> "ZeroDivisionError", cell |-> s1, electrolyte |-> e1]
        ELSE IF IsZero(total_volume)
        THEN [err |-> "ZeroDivisionError", cell |-> s2, electrolyte |-> e2]
        ELSE IF IsZero(total_mass)
        THEN [err |-> "ZeroDivisionError", cell |-> s3, electrolyte |-> e2]
        ELSE [err |-> "none", cell |-> s4, electrolyte |-> e2]

----------------------------------------------------------------------------
(* The caller: the objects it may construct and the arguments it may pass *)

MaxLayers == 1
RatioSteps == 4

CathodeIds == {"pos"}
AnodeIds == {"neg1", "neg2"}
ElectrolyteIds == {"el1", "el2"}
SeparatorIds == {"sep"}
PouchIds == {"bag"}
TabIds == {"tab"}
CellIds == {"cell1", "cell2"}

\* names are given out in order: neg1 is the first anode constructed, cell1
\* the Cell whose construction starts first
Before(id) ==
    CASE id = "neg2" -> {"neg1"}
      [] id = "el2" -> {"el1"}
      [] id = "cell2" -> {"cell1"}
      [] OTHER -> {}

\* the mass ratios of the coatings: active material with carbon and binder,
\* and with carbon alone
Blend == [am |-> R(1, 2), carbon |-> R(1, 4), binder |-> R(1, 4)]
CarbonOnly == [am |-> R(1, 2), carbon |-> R(1, 2), binder |-> Zero]

\* cathodes: two coating thicknesses, a binder and a current collector that
\* the table has and one each that it lacks
CathodeArgs ==
    {[active_material |-> "Prussian Blue", mass_ratio |-> Blend,
      binder |-> b, porosity |-> R(1, 2), voltage |-> Whole(3),
      capacity |-> Whole(100), density_am |-> Whole(2),
      width |-> One, height |-> One, cc_thickness |-> R(1, 10),
      current_collector |-> cc, thickness |-> t,
      tab_height |-> One, tab_width |-> One] :
        b \in {"PVDF", "Kynar"}, cc \in {"Al", "Zn"}, t \in {R(1, 10), R(1, 5)}}

\* anodes: coated or still uncoated when constructed, and one whose active
\* material has no capacity
AnodeArgs ==
    {[active_material |-> "Hard Carbon", mass_ratio |-> CarbonOnly,
      binder |-> "CMC+SBR", porosity |-> R(1, 2), voltage |-> One,
      capacity |-> Whole(x[1]), density_am |-> Whole(2),
      width |-> One, height |-> One, cc_thickness |-> R(1, 10),
      current_collector |-> "Cu", thickness |-> x[2],
      tab_height |-> One, tab_width |-> One] :
        x \in {<<200, Zero>>, <<200, R(1, 10)>>, <<0, R(1, 10)>>}}

SeparatorArgs ==
    {[material |-> "Celgard 2325", width |-> One, height |-> One,
      thickness |-> R(1, 10), porosity |-> R(1, 2), density |-> One]}

ElectrolyteArgs ==
    {[material |-> "NaPF6 in diglyme", density |-> One, volume_excess |-> R(1, 2)]}

PouchArgs ==
    {[width |-> One, height |-> One, thickness |-> R(1, 10), density |-> One]}

TabArgs ==
    {[material_cathode |-> mc, material_anode |-> ma, height |-> One, width |-> One,
      thickness |-> R(1, 10)] :
        mc \in {"Al", "Zn", "tabs"}, ma \in {"Al", "Zn"}}

\* formulations: mass ratios in steps of 1/RatioSteps that sum to at most 1,
\* every binder and a few densities and porosities
MassRatios ==
    {[am |-> R(a, RatioSteps), carbon |-> R(c, RatioSteps), binder |-> R(b, RatioSteps)] :
        <<a, c, b>> \in {t \in (0 .. RatioSteps) \X (0 .. RatioSteps) \X (0 .. RatioSteps) :
                            t[1] + t[2] + t[3] <= RatioSteps}}

FormulationArgs ==
    {[active_material |-> "Prussian Blue", mass_ratio |-> m,
      binder |-> b, porosity |-> p, voltage |-> Whole(3),
      capacity |-> Whole(100), density_am |-> d,
      width |-> One, height |-> One, cc_thickness |-> R(1, 10),
      current_collector |-> "Al", thickness |-> R(1, 10),
      tab_height |-> One, tab_width |-> One] :
        m \in MassRatios, b \in {"PVDF", "CMC+SBR", "Kynar"},
        p \in {Zero, R(3, 10), One}, d \in {Zero, One, R(19, 10), Whole(3)}}

Constructed(heap) == {id \in DOMAIN heap : heap[id].err = "none"}

\* layers_number, n_p_ratio and ice of a Cell: the default ice for every
\* layers_number, and one over-unity ice
CellParams ==
    {[layers_number |-> n, n_p_ratio |-> R(11, 10), ice |-> R(93, 100)] :
        n \in 0 .. MaxLayers}
    \cup {[layers_number |-> 1, n_p_ratio |-> One, ice |-> R(3, 2)]}

CellArgs ==
    {[cathode |-> k, anode |-> a, separator |-> s, electrolyte |-> e,
      format |-> f, tabs |-> t, layers_number |-> p.layers_number,
      n_p_ratio |-> p.n_p_ratio, ice |-> p.ice] :
        k \in CathodeIds, a \in AnodeIds, s \in SeparatorIds, e \in ElectrolyteIds,
        f \in PouchIds, t \in TabIds, p \in CellParams}

Empty == [x \in {} |-> Unset]

Init ==
    /\ materials = MaterialsTable
    /\ electrodes = Empty
    /\ electrolytes = Empty
    /\ separators = Empty
    /\ pouches = Empty
    /\ tabs = Empty
    /\ cells = Empty
    /\ atcall = Empty

\* The caller is a script: it builds the passive components, then the
\* electrolytes, then the electrodes, then the cells, and an exception that
\* a component's constructor raised ends it.
NewElectrode(id, args) ==
    /\ ElectrolyteIds \subseteq Constructed(electrolytes)
    /\ DOMAIN electrodes \subseteq Constructed(electrodes)
    /\ id \notin DOMAIN electrodes
    /\ Before(id) \subseteq DOMAIN electrodes
    /\ electrodes' = electrodes @@ (id :> Electrode(args))
    /\ UNCHANGED <<materials, electrolytes, separators, pouches, tabs, cells, atcall>>

\* Electrode(...) on its own, for any formulation
Formulate(id, args) ==
    /\ id \notin DOMAIN electrodes
    /\ electrodes' = electrodes @@ (id :> Electrode(args))
    /\ UNCHANGED <<materials, electrolytes, separators, pouches, tabs, cells, atcall>>

NewSeparator(id, args) ==
    /\ id \notin DOMAIN separators
    /\ separators' = separators @@ (id :> Separator(args))
    /\ UNCHANGED <<materials, electrodes, electrolytes, pouches, tabs, cells, atcall>>

NewElectrolyte(id, args) ==
    /\ TabIds \subseteq Constructed(tabs)
    /\ id \notin DOMAIN electrolytes
    /\ Before(id) \subseteq DOMAIN electrolytes
    /\ electrolytes' = electrolytes @@ (id :> Electrolyte(args))
    /\ UNCHANGED <<materials, electrodes, separators, pouches, tabs, cells, atcall>>

NewPouch(id, args) ==
    /\ SeparatorIds \subseteq Constructed(separators)
    /\ id \notin DOMAIN pouches
    /\ pouches' = pouches @@ (id :> Pouch(args))
    /\ UNCHANGED <<materials, electrodes, electrolytes, separators, tabs, cells, atcall>>

NewTab(id, args) ==
    /\ PouchIds \subseteq Constructed(pouches)
    /\ id \notin DOMAIN tabs
    /\ tabs' = tabs @@ (id :> Tab(args))
    /\ UNCHANGED <<materials, electrodes, electrolytes, separators, pouches, cells, atcall>>

\* Cell(...): the generated __init__ and the first call of __post_init__
CellSizeAnode(c, args) ==
    /\ c \notin DOMAIN cells
    /\ Before(c) \subseteq DOMAIN cells
    /\ {args.cathode, args.anode} \subseteq Constructed(electrodes)
    /\ args.separator \in Constructed(separators)
    /\ args.electrolyte \in Constructed(electrolytes)
    /\ args.format \in Constructed(pouches)
    /\ args.tabs \in Constructed(tabs)
    /\ LET self == Cell_init(args)
           r == calculate_anode_properties(self, electrodes[args.cathode],
                                           electrodes[args.anode])
       IN  /\ electrodes' = [electrodes EXCEPT ![args.anode] = r.anode]
           /\ cells' = cells @@ (c :> [self EXCEPT
                    !.pc = IF r.err = "none" THEN "sized" ELSE "raised",
                    !.err = r.err])
    /\ atcall' = atcall @@ (c :> [cathode |-> electrodes[args.cathode],
                                  anode |-> electrodes[args.anode],
                                  separator |-> separators[args.separator],
                                  electrolyte |-> electrolytes[args.electrolyte],
                                  format |-> pouches[args.format],
                                  tabs |-> tabs[args.tabs]])
    /\ UNCHANGED <<materials, electrolytes, separators, pouches, tabs>>

\* the second call of __post_init__
CellAggregate(c) ==
    /\ c \in DOMAIN cells
    /\ cells[c].pc = "sized"
    /\ LET self == cells[c]
           r == calculate_energy_density(self, electrodes[self.cathode],
                    electrodes[self.anode], separators[self.separator],
                    electrolytes[self.electrolyte], pouches[self.format],
                    tabs[self.tabs])
       IN  /\ cells' = [cells EXCEPT ![c] = [r.cell EXCEPT
                    !.pc = IF r.err = "none" THEN "done" ELSE "raised",
                    !.err = r.err]]
           /\ electrolytes' = [electrolytes EXCEPT ![self.electrolyte] = r.electrolyte]
    /\ UNCHANGED <<materials, electrodes, separators, pouches, tabs, atcall>>

Next ==
    \/ \E id \in CathodeIds, args \in CathodeArgs : NewElectrode(id, args)
    \/ \E id \in AnodeIds, args \in AnodeArgs : NewElectrode(id, args)
    \/ \E id \in SeparatorIds, args \in SeparatorArgs : NewSeparator(id, args)
    \/ \E id \in ElectrolyteIds, args \in ElectrolyteArgs : NewElectrolyte(id, args)
    \/ \E id \in PouchIds, args \in PouchArgs : NewPouch(id, args)
    \/ \E id \in TabIds, args \in TabArgs : NewTab(id, args)
    \/ \E c \in CellIds, args \in CellArgs : CellSizeAnode(c, args)
    \/ \E c \in CellIds : CellAggregate(c)

Spec == Init /\ [][Next]_vars

\* the Electrode constructor over every formulation
NextFormulate == \E id \in CathodeIds, args \in FormulationArgs : Formulate(id, args)

SpecFormulate == Init /\ [][NextFormulate]_vars

----------------------------------------------------------------------------
(* Properties *)

NonNegative(x) == Leq(Zero, x)

\* the mass ratios are non-negative and sum to 1, the constituent densities
\* are positive and the porosity lies in [0, 1]
ValidFormulation(e) ==
    /\ NonNegative(e.mass_ratio.am)
    /\ NonNegative(e.mass_ratio.carbon)
    /\ NonNegative(e.mass_ratio.binder)
    /\ Add(Add(e.mass_ratio.am, e.mass_ratio.carbon), e.mass_ratio.binder) = One
    /\ Less(Zero, e.density_am)
    /\ HasDensity(e.binder)
    /\ Less(Zero, materials_density(e.binder))
    /\ Less(Zero, materials_density("SuperP"))
    /\ NonNegative(e.porosity)
    /\ Leq(e.porosity, One)

MinDensity(e) ==
    Min(Min(e.density_am, materials_density("SuperP")), materials_density(e.binder))

MaxDensity(e) ==
    Max(Max(e.density_am, materials_density("SuperP")), materials_density(e.binder))

C2_UnknownCollectorFailsFast ==
    \A id \in DOMAIN electrodes :
        LET e == electrodes[id]
        IN  e.current_collector \notin DOMAIN materials =>
              /\ e.err = "KeyError"
              /\ ~IsSet(e.density)
              /\ ~IsSet(e.areal_capacity)

\* C3: a Tab that names a material missing from the table fails with the
\* error kind a missing name produces in the other lookups (materials[name]),
\* and a Tab whose two names have a density gets the table densities
C3_TabUnknownMaterialError ==
    \A id \in DOMAIN tabs :
        LET t == tabs[id]
        IN  /\ t.material_cathode \notin DOMAIN materials =>
                 t.err = LookupErr(t.material_cathode)
            /\ (t.material_cathode \in DOMAIN materials
                  /\ t.material_anode \notin DOMAIN materials) =>
                 t.err = LookupErr(t.material_anode)
            /\ (HasDensity(t.material_cathode) /\ HasDensity(t.material_anode)) =>
                 /\ t.err = "none"
                 /\ t.density_cathode = materials_density(t.material_cathode)
                 /\ t.density_anode = materials_density(t.material_anode)

ResultsSet(cell) ==
    /\ IsSet(cell.total_mass)
    /\ IsSet(cell.total_volume)
    /\ IsSet(cell.capacity)
    /\ IsSet(cell.energy)
    /\ IsSet(cell.volumetric_energy_density)
    /\ IsSet(cell.gravimetric_energy_density)

\* C1: a Cell construction that returns has derived every field, and one
\* that raises leaves the caller's anode and Electrolyte as they were when
\* it was called
C1_ConstructionAtomic ==
    \A c \in DOMAIN cells :
        LET cell == cells[c]
        IN  /\ cell.pc = "done" =>
                 /\ ResultsSet(cell)
                 /\ IsSet(electrodes[cell.anode].areal_capacity)
                 /\ IsSet(electrolytes[cell.electrolyte].volume)
                 /\ IsSet(electrolytes[cell.electrolyte].volume_per_ah)
            /\ cell.pc = "raised" =>
                 /\ electrodes[cell.anode] = atcall[c].anode
                 /\ electrolytes[cell.electrolyte] = atcall[c].electrolyte

\* the step in which Cell c's construction starts and sizes its anode
Sizes(c) == c \notin DOMAIN cells /\ c \in DOMAIN cells'

\* the step in which Cell c's aggregation stage runs
Aggregates(c) == c \in DOMAIN cells /\ cells'[c] # cells[c]

\* C4: when anode.density * anode.capacity * mass_ratio['am'] is non-zero,
\* the anode's areal_capacity after calculate_anode_properties equals
\* cathode.areal_capacity * n_p_ratio, whatever thickness it was built with
C4_AnodeSizingInverse ==
    [][\A c \in CellIds :
         Sizes(c) =>
           LET cell == cells'[c]
               anode == electrodes[cell.anode]
           IN  ~IsZero(Mul(Mul(anode.density, anode.capacity), anode.mass_ratio.am)) =>
                 electrodes'[cell.anode].areal_capacity =
                   Mul(electrodes[cell.cathode].areal_capacity, cell.n_p_ratio)]_vars

\* an anode built with a coating that sizing replaced by another thickness
C4_Witness ==
    \E c \in DOMAIN cells :
        LET cell == cells[c]
        IN  /\ cell.pc = "sized"
            /\ ~IsZero(atcall[c].anode.thickness)
            /\ electrodes[cell.anode].thickness # atcall[c].anode.thickness
            /\ ~IsZero(electrodes[cell.anode].areal_capacity)
            /\ electrodes[cell.anode].areal_capacity =
                 Mul(atcall[c].cathode.areal_capacity, cell.n_p_ratio)

\* min(cathode_raw_capacity, anode_raw_capacity) of a Cell, each raw
\* capacity electrode_mass * mass_ratio['am'] * specific_capacity / 1000
LimitingRawCapacity(cell) ==
    LET cathode == electrodes[cell.cathode]
        anode == electrodes[cell.anode]
    IN  Min(electrode_capacity(Mul(cathode_volume(cell, cathode), cathode.density),
                               cathode),
            electrode_capacity(Mul(anode_volume(cell, anode), anode.density), anode))

\* C5 as stated: every constructed Cell has capacity <= the limiting raw
\* capacity, and capacity = 0 only when the limiting raw capacity is 0
C5_CapacityAtMostLimiting ==
    [][\A c \in CellIds :
         (Aggregates(c) /\ cells'[c].pc = "done") =>
           /\ Leq(cells'[c].capacity, LimitingRawCapacity(cells[c]))
           /\ IsZero(cells'[c].capacity) => IsZero(LimitingRawCapacity(cells[c]))]_vars

\* C5 for an ice in [0, 1] and a non-negative limiting raw capacity
C5_CapacityAtMostLimitingForIceUpToOne ==
    [][\A c \in CellIds :
         (/\ Aggregates(c) /\ cells'[c].pc = "done"
          /\ NonNegative(cells[c].ice) /\ Leq(cells[c].ice, One)
          /\ NonNegative(LimitingRawCapacity(cells[c]))) =>
           /\ Leq(cells'[c].capacity, LimitingRawCapacity(cells[c]))
           /\ IsZero(cells'[c].capacity) => IsZero(LimitingRawCapacity(cells[c]))]_vars

\* a constructed Cell with ice below 1 whose capacity is below the limit
C5_Witness ==
    \E c \in DOMAIN cells :
        /\ cells[c].pc = "done"
        /\ Less(cells[c].ice, One)
        /\ Less(Zero, cells[c].capacity)
        /\ Less(cells[c].capacity, LimitingRawCapacity(cells[c]))

\* C6: a Cell with layers_number = 0 whose aggregation has computed
\* total_volume is constructed, it did not raise: its cathode stack volume
\* is zero, its extra anode layer and its electrolyte fill are not, and it
\* has all its results
C6_ZeroLayersYieldsResult ==
    \A c \in DOMAIN cells :
        (cells[c].layers_number = 0 /\ IsSet(cells[c].total_volume)) =>
          /\ IsZero(cathode_volume(cells[c], electrodes[cells[c].cathode]))
          /\ ~IsZero(anode_volume(cells[c], electrodes[cells[c].anode]))
          /\ ~IsZero(electrolytes[cells[c].electrolyte].volume)
          /\ ~IsZero(cells[c].total_volume)
          /\ cells[c].pc = "done"
          /\ ResultsSet(cells[c])

\* what Cell c and its components would hold had it been constructed alone
\* from the objects it was given
Alone(c) ==
    LET given == atcall[c]
        sized == calculate_anode_properties(cells[c], given.cathode, given.anode).anode
    IN  [anode |-> sized,
         rest |-> calculate_energy_density(cells[c], given.cathode, sized,
                      given.separator, given.electrolyte, given.format, given.tabs)]

\* C7: every constructed Cell and the components it owns hold the values
\* the Cell would have if constructed alone, whatever other Cells were
\* constructed before, after or in between
C7_CellsIndependent ==
    \A c \in DOMAIN cells :
        cells[c].pc = "done" =>
          LET cell == cells[c]
              alone == Alone(c)
          IN  /\ electrodes[cell.anode].thickness = alone.anode.thickness
              /\ electrodes[cell.anode].areal_capacity = alone.anode.areal_capacity
              /\ electrolytes[cell.electrolyte].volume = alone.rest.electrolyte.volume
              /\ electrolytes[cell.electrolyte].volume_per_ah =
                   alone.rest.electrolyte.volume_per_ah
              /\ cell.total_mass = alone.rest.cell.total_mass
              /\ cell.total_volume = alone.rest.cell.total_volume
              /\ cell.capacity = alone.rest.cell.capacity
              /\ cell.energy = alone.rest.cell.energy
              /\ cell.volumetric_energy_density =
                   alone.rest.cell.volumetric_energy_density
              /\ cell.gravimetric_energy_density =
                   alone.rest.cell.gravimetric_energy_density

ArealCapacityCurrent ==
    \A id \in Constructed(electrodes) :
        LET e == electrodes[id]
        IN  e.areal_capacity =
              Mul(Mul(Mul(e.density, e.thickness), e.capacity), e.mass_ratio.am)

\* C9: in every state every constructed Electrode's areal_capacity is
\* density * thickness * capacity * mass_ratio['am'] for its current
\* thickness, and the aggregation stage of a Cell runs only once its sizing
\* stage has written the anode's thickness
C9_ArealCapacityNeverStale ==
    /\ []ArealCapacityCurrent
    /\ [][\A c \in CellIds : Aggregates(c) => cells[c].pc = "sized"]_vars

\* a Cell, constructed or failed in aggregation, whose anode was resized
C9_Witness ==
    \E c \in DOMAIN cells :
        /\ cells[c].pc \in {"done", "raised"}
        /\ IsSet(cells[c].total_volume)
        /\ electrodes[cells[c].anode].areal_capacity # atcall[c].anode.areal_capacity
        /\ ArealCapacityCurrent

SameBut(fields, old, new) ==
    \A f \in DOMAIN old \ fields : new[f] = old[f]

====
